---- MODULE Spec2Model ----
(***************************************************************************)
(* A model of arcade's camera subsystem:                                   *)
(*   arcade/camera/stack.py                 CameraStack                    *)
(*   arcade/camera/perspective.py           PerspectiveProjector           *)
(*   arcade/camera/controllers/simple_controller_functions.py              *)
(*                                                                         *)
(* Numbers.  Python floats are modelled by exact arithmetic:               *)
(*   - vectors, positions and viewports are integers;                      *)
(*   - ratios (aspect, near, far, fov / zoom, speed) are reduced fractions *)
(*     <<n, d>>;                                                           *)
(*   - the half-angle sine and cosine of a multiple of 90 degrees are      *)
(*     elements of Z[sqrt 2]/2, written <<a, b>> for (a + b*sqrt 2)/2.     *)
(* None is the string "None".                                              *)
(***************************************************************************)
EXTENDS Integers, Sequences, FiniteSets, TLC

VARIABLES
    stack,      \* CameraStack._stack: a sequence of CameraState
    lastPush,   \* <<>>, or <<[arg, before]>> when the latest stack call was a push
    window,     \* the Window: current_camera, ctx viewport, projection, view
    view,       \* view[p]: the CameraData of projector p (PerspectiveProjector._view)
    projection, \* projection[p]: its PerspectiveProjectionData (._projection)
    scopes,     \* the suspended activate() generators, innermost last
    outcome     \* what the latest call did: returned value or raised exception

vars == <<stack, lastPush, window, view, projection, scopes, outcome>>

None == "None"

(***************************************************************************)
(* Bounds of the model.                                                    *)
(***************************************************************************)
MaxStack == 3       \* pushes are explored up to this stack length
MaxNest == 2        \* nested `with p.activate()` blocks explored

Projectors == {"P", "Q"}

(***************************************************************************)
(* The window the projectors are bound to (examples/resizable_window.py).  *)
(***************************************************************************)
SCREEN_WIDTH == 500
SCREEN_HEIGHT == 500

(***************************************************************************)
(* Exact arithmetic helpers.                                               *)
(***************************************************************************)
Abs(n) == IF n < 0 THEN -n ELSE n

RECURSIVE GCD(_, _)
GCD(a, b) == IF b = 0 THEN a ELSE GCD(b, a % b)

\* the float n / d, as a reduced fraction with a positive denominator
Frac(n, d) ==
    LET g == GCD(Abs(n), Abs(d))
        s == IF d < 0 THEN -1 ELSE 1
    IN  <<(s * n) \div g, (s * d) \div g>>

\* pyglet Vec3 arithmetic on integer triples
Dot(a, b) == a[1] * b[1] + a[2] * b[2] + a[3] * b[3]

Cross(a, b) ==
    << a[2] * b[3] - a[3] * b[2],
       a[3] * b[1] - a[1] * b[3],
       a[1] * b[2] - a[2] * b[1] >>

\* the length of a vector whose length is an integer
Length(v) == CHOOSE d \in 0..Dot(v, v) : d * d = Dot(v, v)

\* Vec3.normalize(): v / |v|, and v itself when |v| = 0
Normalize(v) ==
    LET d == Length(v)
    IN  IF d = 0 THEN v ELSE <<v[1] \div d, v[2] \div d, v[3] \div d>>

Parallel(a, b) == Cross(a, b) = <<0, 0, 0>>

(***************************************************************************)
(* PerspectiveProjector (arcade/camera/perspective.py).                    *)
(***************************************************************************)

\* __init__'s default CameraData: full-window viewport, centred position,
\* up = +Y, forward = -Z, zoom = 1.0
DefaultCameraData ==
    [ viewport |-> <<0, 0, SCREEN_WIDTH, SCREEN_HEIGHT>>,
      position |-> <<SCREEN_WIDTH \div 2, SCREEN_HEIGHT \div 2, 0>>,
      up       |-> <<0, 1, 0>>,
      forward  |-> <<0, 0, -1>>,
      zoom     |-> 1 ]

\* __init__'s default PerspectiveProjectionData: aspect = width / height,
\* fov = 90 degrees, near = 0.1, far = 1000
DefaultProjectionData ==
    [ aspect |-> Frac(SCREEN_WIDTH, SCREEN_HEIGHT),
      fov    |-> 90,
      near   |-> Frac(1, 10),
      far    |-> Frac(1000, 1) ]

\* PerspectiveProjector(window=..., view=v, projection=pr), an omitted
\* argument being <<>> and a given one <<data>>: `view or CameraData(...)`
__init__(v, pr) ==
    [ view       |-> IF v = <<>> THEN DefaultCameraData ELSE v[1],
      projection |-> IF pr = <<>> THEN DefaultProjectionData ELSE pr[1] ]

\* Mat4.perspective_projection(aspect, z_near, z_far, fov): the matrix is
\* kept as the arguments that determine it
perspective_projection(aspect, z_near, z_far, fov) ==
    [ aspect |-> aspect, z_near |-> z_near, z_far |-> z_far, fov |-> fov ]

\* _generate_projection_matrix: the effective fov is fov / zoom
_generate_projection_matrix(p) ==
    LET _true_fov == Frac(projection[p].fov, view[p].zoom)
    IN  perspective_projection(projection[p].aspect, projection[p].near,
                               projection[p].far, _true_fov)

\* _generate_view_matrix: the 16 entries of the Mat4, in the order written
_generate_view_matrix(p) ==
    LET fo  == Normalize(view[p].forward)
        up0 == Normalize(view[p].up)
        ri  == Cross(fo, up0)
        up  == Cross(ri, fo)
        po  == view[p].position
    IN  << ri[1], up[1], -fo[1], 0,
           ri[2], up[2], -fo[2], 0,
           ri[3], up[3], -fo[3], 0,
           -Dot(ri, po), -Dot(up, po), Dot(fo, po), 1 >>

\* the window after p.use() on a projector p
use_cached(p) ==
    IF window.current_camera = p
    THEN window
    ELSE [ current_camera |-> p,
           viewport       |-> view[p].viewport,
           projection     |-> _generate_projection_matrix(p),
           view           |-> _generate_view_matrix(p) ]

use_window(p) ==
    [ current_camera |-> p,
      viewport       |-> view[p].viewport,
      projection     |-> _generate_projection_matrix(p),
      view           |-> _generate_view_matrix(p) ]

Call(op, who, raised, value, before) ==
    [ op |-> op, who |-> who, raised |-> raised, value |-> value, before |-> before,
      pushed |-> <<>> ]

\* p.use()
use(p) ==
    /\ window' = use_window(p)
    /\ outcome' = Call("use", p, None, None, window)
    /\ lastPush' = <<>>
    /\ UNCHANGED <<stack, view, projection, scopes>>

\* entering `with p.activate():` -- the generator runs up to its yield
activate_enter(p) ==
    /\ Len(scopes) < MaxNest
    /\ LET previous_projector == window.current_camera
       IN  /\ window' = use_window(p)
           /\ scopes' = Append(scopes, [self |-> p, previous_projector |-> previous_projector])
           /\ outcome' = Call("activate_enter", p, None, p, previous_projector)
    /\ lastPush' = <<>>
    /\ UNCHANGED <<stack, view, projection>>

\* leaving the innermost `with` block, normally (err = None) or because the
\* block raised err: the finally clause runs previous_projector.use()
activate_exit_no_finally(err) ==
    /\ scopes # <<>>
    /\ LET frame == scopes[Len(scopes)]
           previous_projector == frame.previous_projector
       IN  /\ scopes' = SubSeq(scopes, 1, Len(scopes) - 1)
           /\ IF err # None
              THEN /\ window' = window
                   /\ outcome' = Call("activate_exit", frame.self, err, err, previous_projector)
              ELSE IF previous_projector = None
              THEN /\ window' = window
                   /\ outcome' = Call("activate_exit", frame.self, "AttributeError", err, previous_projector)
              ELSE /\ window' = use_window(previous_projector)
                   /\ outcome' = Call("activate_exit", frame.self, err, err, previous_projector)
    /\ lastPush' = <<>>
    /\ UNCHANGED <<stack, view, projection>>

activate_exit(err) ==
    /\ scopes # <<>>
    /\ LET frame == scopes[Len(scopes)]
           previous_projector == frame.previous_projector
       IN  /\ scopes' = SubSeq(scopes, 1, Len(scopes) - 1)
           /\ IF previous_projector = None
              THEN \* None.use(): AttributeError, which replaces the block's error
                   /\ window' = window
                   /\ outcome' = Call("activate_exit", frame.self, "AttributeError", err, previous_projector)
              ELSE /\ window' = use_window(previous_projector)
                   /\ outcome' = Call("activate_exit", frame.self, err, err, previous_projector)
    /\ lastPush' = <<>>
    /\ UNCHANGED <<stack, view, projection>>

\* application code assigning view_data.zoom; zoom is a positive scalar, so
\* fov / zoom never divides by zero and use() itself raises nothing
Zooms == {1, 2}

set_zoom(p, z) ==
    /\ view[p].zoom # z
    /\ view' = [view EXCEPT ![p].zoom = z]
    /\ outcome' = Call("set_zoom", p, None, None, None)
    /\ lastPush' = <<>>
    /\ UNCHANGED <<stack, window, projection, scopes>>

(***************************************************************************)
(* CameraStack (arcade/camera/stack.py).                                   *)
(***************************************************************************)

\* the NamedTuple CameraState
CameraState(v, pr, viewport, scissor, projector) ==
    [ view |-> v, projection |-> pr, viewport |-> viewport, scissor |-> scissor,
      projector |-> projector ]

\* the states pushed: the snapshot a projector produces from its current data
Snapshot(p) ==
    CameraState(_generate_view_matrix(p), _generate_projection_matrix(p),
                view[p].viewport, None, p)

\* CameraStack.__init__: self._stack = []
CameraStack__init__ == <<>>

\* push(camera_state): self._stack.append(camera_state)
push(camera_state) ==
    /\ Len(stack) < MaxStack
    /\ stack' = Append(stack, camera_state)
    /\ outcome' = Call("push", None, None, None, stack)
    /\ lastPush' = << [arg |-> camera_state, before |-> stack] >>
    /\ UNCHANGED <<window, view, projection, scopes>>

\* pop(): ValueError when exactly one entry is held; list.pop() raises
\* IndexError on an empty list
pop ==
    /\ IF Len(stack) = 1
       THEN /\ stack' = stack
            /\ outcome' = [Call("pop", None, "ValueError", None, stack)
                              EXCEPT !.pushed = lastPush]
       ELSE IF stack = <<>>
       THEN /\ stack' = stack
            /\ outcome' = [Call("pop", None, "IndexError", None, stack)
                              EXCEPT !.pushed = lastPush]
       ELSE /\ stack' = SubSeq(stack, 1, Len(stack) - 1)
            /\ outcome' = [Call("pop", None, None, stack[Len(stack)], stack)
                              EXCEPT !.pushed = lastPush]
    /\ lastPush' = <<>>
    /\ UNCHANGED <<window, view, projection, scopes>>

\* peek(): self._stack[-1], an IndexError on an empty list
peek ==
    /\ outcome' = IF stack = <<>>
                  THEN Call("peek", None, "IndexError", None, stack)
                  ELSE Call("peek", None, None, stack[Len(stack)], stack)
    /\ lastPush' = <<>>
    /\ UNCHANGED <<stack, window, view, projection, scopes>>

\* clear(): self._stack.clear(); the statement that follows, `self._context.`,
\* is cut off and assigns nothing to the context
clear ==
    /\ stack' = <<>>
    /\ outcome' = Call("clear", None, None, None, stack)
    /\ lastPush' = <<>>
    /\ UNCHANGED <<window, view, projection, scopes>>

(***************************************************************************)
(* Controllers (arcade/camera/controllers/simple_controller_functions.py). *)
(* An element of Z[sqrt 2] is <<a, b>> for a + b*sqrt 2.                   *)
(***************************************************************************)
ZAdd(x, y) == <<x[1] + y[1], x[2] + y[2]>>
ZSub(x, y) == <<x[1] - y[1], x[2] - y[2]>>
ZMul(x, y) == <<x[1] * y[1] + 2 * x[2] * y[2], x[1] * y[2] + x[2] * y[1]>>
ZScale(n, x) == <<n * x[1], n * x[2]>>

\* 2*cos and 2*sin of h eighths of a turn (h * 45 degrees), h in 0..7
cos2(h) ==
    CASE h = 0 -> <<2, 0>>  [] h = 1 -> <<0, 1>>  [] h = 2 -> <<0, 0>>
      [] h = 3 -> <<0, -1>> [] h = 4 -> <<-2, 0>> [] h = 5 -> <<0, -1>>
      [] h = 6 -> <<0, 0>>  [] h = 7 -> <<0, 1>>

sin2(h) ==
    CASE h = 0 -> <<0, 0>>  [] h = 1 -> <<0, 1>>  [] h = 2 -> <<2, 0>>
      [] h = 3 -> <<0, 1>>  [] h = 4 -> <<0, 0>>  [] h = 5 -> <<0, -1>>
      [] h = 6 -> <<-2, 0>> [] h = 7 -> <<0, -1>>

\* the sandwich product of quaternion_rotation for a half angle of h eighths
\* of a turn; each component of the result is 4 times the float the code
\* returns, as an element of Z[sqrt 2]
quaternion_sandwich(_axis, _vector, h) ==
    LET p1 == _vector[1]
        p2 == _vector[2]
        p3 == _vector[3]
        _c2 == cos2(h)
        _s2 == sin2(h)
        q0 == _c2
        q1 == ZScale(_axis[1], _s2)
        q2 == ZScale(_axis[2], _s2)
        q3 == ZScale(_axis[3], _s2)
        q0_2 == ZMul(q0, q0)
        q1_2 == ZMul(q1, q1)
        q2_2 == ZMul(q2, q2)
        q3_2 == ZMul(q3, q3)
        q01 == ZMul(q0, q1)
        q02 == ZMul(q0, q2)
        q03 == ZMul(q0, q3)
        q12 == ZMul(q1, q2)
        q13 == ZMul(q1, q3)
        q23 == ZMul(q2, q3)
        _x == ZAdd(ZScale(p1, ZSub(ZSub(ZAdd(q0_2, q1_2), q2_2), q3_2)),
                   ZScale(2, ZAdd(ZScale(p2, ZSub(q12, q03)), ZScale(p3, ZAdd(q02, q13)))))
        _y == ZAdd(ZScale(p2, ZSub(ZAdd(ZSub(q0_2, q1_2), q2_2), q3_2)),
                   ZScale(2, ZAdd(ZScale(p1, ZAdd(q03, q12)), ZScale(p3, ZSub(q23, q01)))))
        _z == ZAdd(ZScale(p3, ZAdd(ZSub(ZSub(q0_2, q1_2), q2_2), q3_2)),
                   ZScale(2, ZAdd(ZScale(p1, ZSub(q13, q02)), ZScale(p2, ZAdd(q01, q23)))))
    IN  <<_x, _y, _z>>

\* quaternion_rotation(_axis, _vector, _angle), _angle a multiple of 90
\* degrees: _rotation_rads = -radians(_angle), halved for the quaternion
quaternion_rotation_unnegated(_axis, _vector, _angle) ==
    quaternion_sandwich(_axis, _vector, (_angle \div 90) % 8)

quaternion_rotation(_axis, _vector, _angle) ==
    quaternion_sandwich(_axis, _vector, (-(_angle \div 90)) % 8)

\* a returned vector as integers, when every component is one
IsIntegerVector(r) == \A i \in 1..3 : r[i][2] = 0 /\ r[i][1] % 4 = 0
IntegerVector(r) == <<r[1][1] \div 4, r[2][1] \div 4, r[3][1] \div 4>>

Axes == { <<1, 0, 0>>, <<0, 1, 0>>, <<0, 0, -1>>, <<0, 2, 0>> }
Vectors == { <<0, 0, -1>>, <<0, 1, 0>>, <<1, 2, 3>> }
Angles == { -90, 0, 90, 180 }
Rotated == { "P" }      \* the projector whose CameraData the rotations are given

\* a call quaternion_rotation(_axis, _vector, _angle) by application code
quaternion_rotation_call(_axis, _vector, _angle) ==
    /\ outcome' = Call("quaternion_rotation", None, None,
                       quaternion_rotation(_axis, _vector, _angle),
                       <<_axis, _vector, _angle>>)
    /\ lastPush' = <<>>
    /\ UNCHANGED <<stack, window, view, projection, scopes>>

\* rotate_around_forward(data, angle): data.up = quaternion_rotation(forward, up, angle)
rotate_around_forward(p, angle) ==
    LET r == quaternion_rotation(view[p].forward, view[p].up, angle)
    IN  /\ IsIntegerVector(r)
        /\ view' = [view EXCEPT ![p].up = IntegerVector(r)]
        /\ outcome' = Call("rotate_around_forward", p, None, None, angle)
        /\ lastPush' = <<>>
        /\ UNCHANGED <<stack, window, projection, scopes>>

\* rotate_around_up(data, angle): data.forward = quaternion_rotation(up, forward, angle)
rotate_around_up(p, angle) ==
    LET r == quaternion_rotation(view[p].up, view[p].forward, angle)
    IN  /\ IsIntegerVector(r)
        /\ view' = [view EXCEPT ![p].forward = IntegerVector(r)]
        /\ outcome' = Call("rotate_around_up", p, None, None, angle)
        /\ lastPush' = <<>>
        /\ UNCHANGED <<stack, window, projection, scopes>>

\* s + t * (e - s) for a fraction t = <<n, d>>; IsExact says the float is an integer
Lerp(s, e, t) == s + (t[1] * (e - s)) \div t[2]
IsExact(s, e, t) == \A i \in 1..3 : (t[1] * (e[i] - s[i])) % t[2] = 0

_interpolate_3D(s, e, t) ==
    << Lerp(s[1], e[1], t), Lerp(s[2], e[2], t), Lerp(s[3], e[3], t) >>

Speeds == { <<0, 1>>, <<1, 2>>, <<1, 1>> }
Targets2D == { <<0, 0>>, <<4, 2>> }
TargetsZ == { 0, 4 }
Followers == { "Q" }    \* the projector whose CameraData the follow functions are given

\* simple_follow(speed, target, data): data.position moves towards target
simple_follow(speed, target, p) ==
    /\ IsExact(view[p].position, target, speed)
    /\ view' = [view EXCEPT ![p].position = _interpolate_3D(@, target, speed)]
    /\ outcome' = Call("simple_follow", p, None, <<speed, target>>, view[p].position)
    /\ lastPush' = <<>>
    /\ UNCHANGED <<stack, window, projection, scopes>>

\* simple_follow_2D(speed, target, data): simple_follow(speed, target + (0,), data)
simple_follow_2D(speed, target, p) ==
    /\ IsExact(view[p].position, target \o <<0>>, speed)
    /\ view' = [view EXCEPT ![p].position = _interpolate_3D(@, target \o <<0>>, speed)]
    /\ outcome' = Call("simple_follow_2D", p, None, <<speed, target>>, view[p].position)
    /\ lastPush' = <<>>
    /\ UNCHANGED <<stack, window, projection, scopes>>

(***************************************************************************)
(* Initial state: a window with no current camera, projector P built with  *)
(* the defaults and projector Q built from explicit data, and a freshly    *)
(* constructed CameraStack.                                                *)
(***************************************************************************)
Identity == << 1, 0, 0, 0,   0, 1, 0, 0,   0, 0, 1, 0,   0, 0, 0, 1 >>

\* the forward vectors Q is constructed with: perpendicular to its up vector
\* (0, 1, 0), and parallel to it
Forwards == { <<0, 0, -1>>, <<0, 0, -3>>, <<0, 1, 0>>, <<0, -2, 0>> }

QCameraData(f) ==
    [ viewport |-> <<10, 20, 250, 125>>,
      position |-> <<2, 4, 4>>,
      up       |-> <<0, 1, 0>>,
      forward  |-> f,
      zoom     |-> 1 ]

QProjectionData ==
    [ aspect |-> Frac(250, 125), fov |-> 60, near |-> Frac(1, 1), far |-> Frac(100, 1) ]

Built(f) ==
    [ p \in Projectors |->
        IF p = "P" THEN __init__(<<>>, <<>>)
        ELSE __init__(<<QCameraData(f)>>, <<QProjectionData>>) ]

WindowInit ==
    [ current_camera |-> None,
      viewport       |-> <<0, 0, SCREEN_WIDTH, SCREEN_HEIGHT>>,
      projection     |-> [ kind |-> "window default" ],
      view           |-> Identity ]

Init ==
    /\ \E f \in Forwards :
          /\ view = [p \in Projectors |-> Built(f)[p].view]
          /\ projection = [p \in Projectors |-> Built(f)[p].projection]
    /\ window = WindowInit
    /\ stack = CameraStack__init__
    /\ lastPush = <<>>
    /\ scopes = <<>>
    /\ outcome = Call("init", None, None, None, None)

\* the projector and its scoped activation
Next ==
    \/ \E p \in Projectors : use(p)
    \/ \E p \in Projectors : activate_enter(p)
    \/ \E err \in {None, "BlockError"} : activate_exit(err)
    \/ \E p \in Projectors, z \in Zooms : set_zoom(p, z)

Spec == Init /\ [][Next]_vars

\* the camera stack, with projectors activated around its calls
NextStack ==
    \/ \E p \in Projectors : push(Snapshot(p))
    \/ pop
    \/ peek
    \/ clear
    \/ \E p \in Projectors : use(p)

SpecStack == Init /\ [][NextStack]_vars

\* the motion controllers moving the projectors' CameraData
NextFollow ==
    \/ \E sp \in Speeds, t \in Targets2D, z \in TargetsZ, p \in Followers :
          simple_follow(sp, t \o <<z>>, p)
    \/ \E sp \in Speeds, t \in Targets2D, p \in Followers : simple_follow_2D(sp, t, p)

SpecFollow == Init /\ [][NextFollow]_vars

\* quaternion rotations, called directly and through the rotation controllers
NextRotation ==
    \/ \E a \in Axes, v \in Vectors, angle \in Angles : quaternion_rotation_call(a, v, angle)
    \/ \E p \in Rotated, angle \in Angles : rotate_around_forward(p, angle)
    \/ \E p \in Rotated, angle \in Angles : rotate_around_up(p, angle)

SpecRotation == Init /\ [][NextRotation]_vars

(***************************************************************************)
(* Properties of the camera stack (SpecStack).                             *)
(***************************************************************************)

\* C1: in every reachable state the stack holds at least one CameraState,
\* the base entry being present from construction on.
C1_StackNeverEmpty == Len(stack) >= 1

\* C4: pop() on a freshly constructed stack, and whenever exactly one entry
\* is held, raises ValueError and leaves the stack unchanged.
C4_PopFinalEntryFails ==
    (outcome.op = "pop"
        /\ (outcome.before = CameraStack__init__ \/ Len(outcome.before) = 1))
    => (outcome.raised = "ValueError" /\ stack = outcome.before)

\* C5: push(s) always succeeds, and a pop() immediately after push(s)
\* succeeds, returns s and leaves the stack as it was before the push.
C5_PushThenPop ==
    /\ outcome.op = "push" =>
          (outcome.raised = None /\ lastPush # <<>>
             /\ stack = Append(outcome.before, lastPush[1].arg))
    /\ (outcome.op = "pop" /\ outcome.pushed # <<>>) =>
          /\ outcome.raised = None
          /\ outcome.value = outcome.pushed[1].arg
          /\ stack = outcome.pushed[1].before

\* C6: after clear() the stack holds exactly the base entry, and the context's
\* view matrix, projection matrix and viewport are those of that entry.
C6_ClearKeepsBase ==
    outcome.op = "clear" =>
        /\ Len(stack) = 1
        /\ outcome.before # <<>>
        /\ stack[1] = outcome.before[1]
        /\ window.view = stack[1].view
        /\ window.projection = stack[1].projection
        /\ window.viewport = stack[1].viewport

(***************************************************************************)
(* Properties of the projector (Spec).                                     *)
(***************************************************************************)

\* C2: when a `with P.activate():` block entered while projector Q was current
\* is left, normally or by an error, Q is the current camera again, Q's
\* viewport and matrices are installed, and the block's error propagates.
C2_ScopedRestoresPrevious ==
    (outcome.op = "activate_exit" /\ outcome.before # None) =>
        /\ window.current_camera = outcome.before
        /\ window.viewport = view[outcome.before].viewport
        /\ window.projection = _generate_projection_matrix(outcome.before)
        /\ window.view = _generate_view_matrix(outcome.before)
        /\ outcome.raised = outcome.value

\* an inner block, entered while another projector was current, left by an
\* error with the previous projector restored
C2_Witness ==
    /\ outcome.op = "activate_exit"
    /\ outcome.before # None
    /\ outcome.before # outcome.who
    /\ outcome.value = "BlockError"
    /\ scopes # <<>>
    /\ window.current_camera = outcome.before

\* C3: a scoped activation attempted while current_camera is None fails with
\* ValueError.
C3_NoPreviousIsValueError ==
    (outcome.op \in {"activate_enter", "activate_exit"} /\ outcome.before = None)
    => outcome.raised = "ValueError"

\* C7: right after p.use() the current camera is p, the context viewport is
\* p's viewport and the window's matrices are those derived from p's data as
\* it is at the call.
C7_UseInstalls ==
    outcome.op = "use" =>
        LET p == outcome.who
        IN  /\ outcome.raised = None
            /\ window.current_camera = p
            /\ window.viewport = view[p].viewport
            /\ window.projection =
                  [ aspect |-> projection[p].aspect, z_near |-> projection[p].near,
                    z_far |-> projection[p].far,
                    fov |-> Frac(projection[p].fov, view[p].zoom) ]
            /\ window.view = _generate_view_matrix(p)

\* P used again after its zoom was changed while it was the current camera
C7_Witness ==
    /\ outcome.op = "use"
    /\ outcome.who = "P"
    /\ outcome.before.current_camera = "P"
    /\ outcome.before.projection.fov = <<90, 1>>
    /\ window.projection.fov = <<45, 1>>

\* C10: use() on a projector whose forward and up vectors are parallel reports
\* a DegenerateGeometry error and installs nothing on the context.
C10_DegenerateReported ==
    (outcome.op = "use" /\ Parallel(view[outcome.who].forward, view[outcome.who].up))
    => (outcome.raised = "DegenerateGeometry" /\ window = outcome.before)

(***************************************************************************)
(* Properties of the controllers (SpecFollow, SpecRotation).               *)
(***************************************************************************)

\* C8: simple_follow_2D leaves the z component of data.position as it was,
\* while x and y become start + speed * (target - start).
C8_Follow2DKeepsZ ==
    outcome.op = "simple_follow_2D" =>
        LET start == outcome.before
            speed == outcome.value[1]
            target == outcome.value[2]
            now == view[outcome.who].position
        IN  /\ now[1] = Lerp(start[1], target[1], speed)
            /\ now[2] = Lerp(start[2], target[2], speed)
            /\ now[3] = start[3]

\* C9 as stated: quaternion_rotation((0,1,0), (0,0,-1), 90) returns (-1,0,0).
C9_RotationIsMinusX ==
    (outcome.op = "quaternion_rotation"
        /\ outcome.before = << <<0, 1, 0>>, <<0, 0, -1>>, 90 >>)
    => (IsIntegerVector(outcome.value)
          /\ IntegerVector(outcome.value) = <<-1, 0, 0>>)

\* C9 amended: quaternion_rotation((0,1,0), (0,0,-1), 90), computed with the
\* angle negated before the half-angle quaternion is built, returns (1,0,0).
C9_RotationIsPlusX ==
    (outcome.op = "quaternion_rotation"
        /\ outcome.before = << <<0, 1, 0>>, <<0, 0, -1>>, 90 >>)
    => (IsIntegerVector(outcome.value)
          /\ IntegerVector(outcome.value) = <<1, 0, 0>>)

C9_Witness ==
    /\ outcome.op = "quaternion_rotation"
    /\ outcome.before = << <<0, 1, 0>>, <<0, 0, -1>>, 90 >>
    /\ outcome.value = << <<4, 0>>, <<0, 0>>, <<0, 0>> >>

====
